---- MODULE Spec2Model ----
(***************************************************************************)
(* Quota-optimisation layer of gcp-o11y-mcp: the time-boxed LogCache, the  *)
(* RateLimiter retry loop, and the Execute methods of the three tools      *)
(* (list_log_entries, search_logs, preset_query) that compose them.        *)
(*                                                                         *)
(* Conventions                                                             *)
(*  - A Go string is a sequence of tokens; "" is <<>>.  A token stands for *)
(*    a fixed run of characters, so equal token sequences are equal        *)
(*    strings.  The space character is the token " ".                      *)
(*  - The clock `now` counts whole minutes (time.Minute = 1).  Durations   *)
(*    of the retry loop are kept in milliseconds (time.Second = 1000).     *)
(*  - A Go nil slice and an empty slice are both <<>>.                     *)
(***************************************************************************)
EXTENDS Integers, Sequences, FiniteSets, TLC

VARIABLES
    now,        \* time.Now(), in minutes since process start
    horizon,    \* last clock value explored in this behaviour
    cache,      \* cache[t]: the map c.cache of tool t's LogCache (key -> CacheEntry)
    got,        \* result of the latest direct LogCache.Get
    written,    \* history: written[t][key] = the latest Set on that key (and, for a
                \* tool's Set, the filter the stored records were fetched with)
    procs,      \* the goroutines that serve tool invocations
    reqs,       \* the requests callers issue in this behaviour
    inv,        \* inv[p]: the invocation goroutine p is serving, or its last response
    liveSweeps, \* number of cleanup goroutines started so far, counted up to MaxSweeps
    keyLog,     \* history: the (params, key) pairs GenerateKey has produced
    stopped,    \* whether Stop has been called on the server
    mu          \* mu[t]: the goroutines holding c.mu of tool t's LogCache

vars == <<now, horizon, cache, got, written, procs, reqs, inv, liveSweeps, keyLog, stopped, mu>>

\* ---------------------------------------------------------------- bounds
MaxTime == 12          \* clock horizon of the tool-level specification (minutes)
CacheHorizon == 6      \* clock horizon when the cache is driven directly
MaxSweeps == 4         \* cap on the cleanup goroutines counted
MaxLog == 2            \* cap on the size of the key history
PairHorizon == 5       \* clock horizon when two request shapes are served
FilterHorizon == 1     \* clock horizon when filters are compiled directly
LiveHorizon == 2       \* clock horizon when termination is followed
NormHorizon == 1       \* clock horizon when requests with equal defaults are served
LockHorizon == 5       \* clock horizon when the cache's lock is followed step by step
ConcHorizon == 1       \* clock horizon when two invocations run concurrently

\* ------------------------------------------------------- program constants
Minute == 1
SweepInterval == 5     \* time.NewTicker(5 * time.Minute)

Tools == {"list_log_entries", "search_logs", "preset_query"}

\* ------------------------------------------------------------ sequences
RECURSIVE Join(_, _)
\* strings.Join on token strings: the elements of ss separated by sep
Join(ss, sep) ==
    IF Len(ss) = 0 THEN <<>>
    ELSE IF Len(ss) = 1 THEN ss[1]
    ELSE ss[1] \o sep \o Join(Tail(ss), sep)

\* map m with key k bound to v (m[k] = v in Go)
Put(m, k, v) == [x \in (DOMAIN m) \cup {k} |-> IF x = k THEN v ELSE m[x]]

\* map m without the keys in ks (delete(m, k) for each)
Without(m, ks) == [x \in (DOMAIN m) \ ks |-> m[x]]

EmptyMap == [x \in {} |-> <<>>]

\* ------------------------------------------------------------- LogCache
CacheEntry(data, ts, ttl) == [Data |-> data, Timestamp |-> ts, TTL |-> ttl]

Miss == [data |-> <<>>, found |-> FALSE]

\* a plausible slip: Get never looks at the age
GetNoExpiry(m, key, t) ==
    IF key \notin DOMAIN m THEN Miss
    ELSE [data |-> m[key].Data, found |-> TRUE]

\* LogCache.Get on the map m at time t
Get(m, key, t) ==
    IF key \notin DOMAIN m THEN Miss
    ELSE IF t - m[key].Timestamp > m[key].TTL THEN Miss
    ELSE [data |-> m[key].Data, found |-> TRUE]

\* a plausible slip: Set keeps the entry a key already has
SetKeepFirst(m, key, data, ttl, t) ==
    IF key \in DOMAIN m THEN m ELSE Put(m, key, CacheEntry(data, t, ttl))

\* a plausible slip: an entry that is replaced keeps its creation time
SetKeepTimestamp(m, key, data, ttl, t) ==
    Put(m, key, CacheEntry(data, IF key \in DOMAIN m THEN m[key].Timestamp ELSE t, ttl))

\* LogCache.Set on the map m at time t
Set(m, key, data, ttl, t) == Put(m, key, CacheEntry(data, t, ttl))

\* a plausible slip: the pass also deletes the entries whose age equals the TTL
CleanupEager(m, t) ==
    Without(m, {k \in DOMAIN m : t - m[k].Timestamp >= m[k].TTL})

\* one pass of the cleanup loop at time t
Cleanup(m, t) ==
    Without(m, {k \in DOMAIN m : t - m[k].Timestamp > m[k].TTL})

\* ------------------------------------------------ the cache driven directly
\* the LogCache instance exercised when Get and Set are called directly
UnitCache == "list_log_entries"

DirectKeys == {<<"k1">>, <<"k2">>}
RecSeqs == {<<"r1", "r2">>, <<"r2", "r1">>}
DirectTTLs == {Minute, 2 * Minute}

\* a sync.RWMutex nobody holds: the goroutines inside RLock..RUnlock and
\* those inside Lock..Unlock
Unlocked == [readers |-> {}, writers |-> {}]

NoGet == [tool |-> "none", key |-> <<>>, data |-> <<>>, found |-> FALSE]

\* registerTools constructs one tool of each kind, each with its own LogCache
\* and cleanup goroutine
InitCaches ==
    /\ cache = [t \in Tools |-> EmptyMap]
    /\ written = [t \in Tools |-> EmptyMap]
    /\ liveSweeps = Cardinality(Tools)
    /\ stopped = FALSE
    /\ mu = [t \in Tools |-> Unlocked]

InitCache ==
    /\ now = 0
    /\ horizon = CacheHorizon
    /\ InitCaches
    /\ got = NoGet
    /\ procs = {}
    /\ reqs = {}
    /\ inv = EmptyMap
    /\ keyLog = {}

\* time passes
Tick ==
    /\ now < horizon
    /\ now' = now + 1
    /\ UNCHANGED <<horizon, cache, got, written, procs, reqs, inv, liveSweeps, keyLog, stopped, mu>>

\* c.Set(key, data, ttl) called directly
CacheSet(t, key, data, ttl) ==
    /\ cache' = [cache EXCEPT ![t] = Set(@, key, data, ttl, now)]
    /\ written' = [written EXCEPT ![t] = Put(@, key, CacheEntry(data, now, ttl))]
    /\ UNCHANGED <<now, horizon, got, procs, reqs, inv, liveSweeps, keyLog, stopped, mu>>

\* c.Get(key) called directly; the result is kept in got
CacheGet(t, key) ==
    /\ got' = [tool |-> t, key |-> key,
               data |-> Get(cache[t], key, now).data,
               found |-> Get(cache[t], key, now).found]
    /\ UNCHANGED <<now, horizon, cache, written, procs, reqs, inv, liveSweeps, keyLog, stopped, mu>>

\* one pass of tool t's cleanup goroutine; the ticker first fires
\* SweepInterval after the cache was made
Sweep(t) ==
    /\ now >= SweepInterval
    /\ cache' = [cache EXCEPT ![t] = Cleanup(@, now)]
    /\ UNCHANGED <<now, horizon, got, written, procs, reqs, inv, liveSweeps, keyLog, stopped, mu>>

DirectSet == \E k \in DirectKeys, d \in RecSeqs, ttl \in DirectTTLs : CacheSet(UnitCache, k, d, ttl)
DirectGet == \E k \in DirectKeys : CacheGet(UnitCache, k)
DirectSweep == Sweep(UnitCache)

NextCache == Tick \/ DirectSet \/ DirectGet \/ DirectSweep

SpecCache == InitCache /\ [][NextCache]_vars

\* s.Stop(): the transport is closed.  Nothing else is told to end
Stop ==
    /\ ~stopped
    /\ stopped' = TRUE
    /\ UNCHANGED <<now, horizon, cache, got, written, procs, reqs, inv, liveSweeps, keyLog, mu>>

\* the process with its caches and cleanup goroutines, up to and after Stop;
\* the goroutines and the clock keep running
NextShutdown == NextCache \/ Stop

SpecShutdown == InitCache /\ [][NextShutdown]_vars /\ WF_vars(NextShutdown)

\* ------------------------------------------------------------ formatting
\* fmt's %d of an int
FmtInt(n) == <<ToString(n)>>

\* fmt's %v of a []string: the elements separated by one space, in brackets
FmtSlice(ss) == <<"[">> \o Join(ss, <<" ">>) \o <<"]">>

\* fmt's %+v of a struct whose fields are given as <<name, formatted value>>
\* pairs: {Name1:value1 Name2:value2 ...}
FmtStruct(fields) ==
    <<"{">> \o Join([i \in 1..Len(fields) |-> <<fields[i][1] \o ":">> \o fields[i][2]], <<" ">>)
            \o <<"}">>

\* fmt.Sprintf("%+v", params) for the three argument structs
SprintfPlusV(params) ==
    IF "QueryName" \in DOMAIN params THEN
        FmtStruct(<< <<"QueryName", params.QueryName>>,
                     <<"Parameters", FmtSlice(params.Parameters)>> >>)
    ELSE IF "Query" \in DOMAIN params THEN
        FmtStruct(<< <<"Query", params.Query>>,
                     <<"StartTime", params.StartTime>>,
                     <<"EndTime", params.EndTime>>,
                     <<"Severity", params.Severity>>,
                     <<"Resource", params.Resource>>,
                     <<"LogName", params.LogName>>,
                     <<"PageSize", FmtInt(params.PageSize)>>,
                     <<"OrderBy", params.OrderBy>> >>)
    ELSE
        FmtStruct(<< <<"Filter", params.Filter>>,
                     <<"PageSize", FmtInt(params.PageSize)>>,
                     <<"OrderBy", params.OrderBy>> >>)

\* hex of md5.Sum: taken to be collision free, so the digest stands for its input
Md5Hex(s) == <<"md5(">> \o s \o <<")">>

\* a plausible slip: the key also depends on when it is derived
GenerateKeyTimed(params) == Md5Hex(SprintfPlusV(params) \o FmtInt(now))

\* LogCache.GenerateKey
GenerateKey(params) == Md5Hex(SprintfPlusV(params))

\* ------------------------------------------------- arguments and defaults
DefaultPageSize == 10
MaxPageSize == 20
DefaultOrderBy == <<"timestamp", " ", "desc">>

\* value of a JSON argument, or the zero value of its struct field when absent
Field(args, name, zero) == IF name \in DOMAIN args THEN args[name] ELSE zero

\* json.Marshal(args) then json.Unmarshal into the tool's argument struct
Decode(t, args) ==
    CASE t = "list_log_entries" ->
           [Filter |-> Field(args, "filter", <<>>),
            PageSize |-> Field(args, "pageSize", 0),
            OrderBy |-> Field(args, "orderBy", <<>>)]
      [] t = "search_logs" ->
           [Query |-> Field(args, "query", <<>>),
            StartTime |-> Field(args, "startTime", <<>>),
            EndTime |-> Field(args, "endTime", <<>>),
            Severity |-> Field(args, "severity", <<>>),
            Resource |-> Field(args, "resource", <<>>),
            LogName |-> Field(args, "logName", <<>>),
            PageSize |-> Field(args, "pageSize", 0),
            OrderBy |-> Field(args, "orderBy", <<>>)]
      [] t = "preset_query" ->
           [QueryName |-> Field(args, "queryName", <<>>),
            Parameters |-> Field(args, "parameters", <<>>)]

\* the page-size defaults before the quota optimisation: default 50, no ceiling
PageSizeUncapped(n) == IF n = 0 THEN 50 ELSE n

\* page-size defaults of Execute: 0 becomes 10, anything above 20 becomes 20
PageSizeDefaults(n) ==
    LET d == IF n = 0 THEN DefaultPageSize ELSE n
    IN  IF d > MaxPageSize THEN MaxPageSize ELSE d

\* a plausible slip: the defaults are not applied before the key is derived
NormalizeLate(t, params) == params

\* the defaults Execute applies to the decoded arguments of list and search;
\* preset_query applies none
Normalize(t, params) ==
    IF t = "preset_query" THEN params
    ELSE [params EXCEPT !.PageSize = PageSizeDefaults(@),
                        !.OrderBy = IF @ = <<>> THEN DefaultOrderBy ELSE @]

\* the argument map the server's tool handler builds from the decoded
\* arguments before it calls Execute
HandlerArgs(t, args) ==
    LET a == Decode(t, args) IN
    CASE t = "list_log_entries" ->
           [filter |-> a.Filter, pageSize |-> a.PageSize, orderBy |-> a.OrderBy]
      [] t = "search_logs" ->
           [query |-> a.Query, severity |-> a.Severity, pageSize |-> a.PageSize]
      [] t = "preset_query" ->
           [queryName |-> a.QueryName, parameters |-> a.Parameters]

\* ----------------------------------------------------------- preset catalog
Hour == 60

PresetNames == {<<"cloud_run_errors">>, <<"cloud_run_service_errors">>,
                <<"recent_logs">>, <<"high_severity">>}

\* CommonPresetQueries: filter template (%s marks a substitution point) and page size
CommonPresetQueries(name) ==
    CASE name = <<"cloud_run_errors">> ->
           [Filter |-> <<"resource.type=\"cloud_run_revision\" AND severity>=ERROR AND timestamp>=\"", "%s", "\"">>,
            PageSize |-> 10]
      [] name = <<"cloud_run_service_errors">> ->
           [Filter |-> <<"resource.type=\"cloud_run_revision\" AND resource.labels.service_name=\"", "%s",
                         "\" AND severity>=ERROR AND timestamp>=\"", "%s", "\"">>,
            PageSize |-> 15]
      [] name = <<"recent_logs">> ->
           [Filter |-> <<"timestamp>=\"", "%s", "\"">>, PageSize |-> 20]
      [] name = <<"high_severity">> ->
           [Filter |-> <<"severity>=ERROR AND timestamp>=\"", "%s", "\"">>, PageSize |-> 10]

RECURSIVE Sprintf(_, _)
\* fmt.Sprintf(format, a...) for %s verbs: each %s takes the next argument
Sprintf(format, a) ==
    IF Len(format) = 0 THEN <<>>
    ELSE IF Head(format) = "%s" /\ Len(a) > 0 THEN Head(a) \o Sprintf(Tail(format), Tail(a))
    ELSE <<Head(format)>> \o Sprintf(Tail(format), a)

\* a plausible slip: the time is written as a bare number
FormatUnix(t) == <<ToString(t)>>

\* t.Format(time.RFC3339) of a time given in minutes
FormatRFC3339(t) == <<"T", ToString(t)>>

\* a plausible slip: every name and arity resolves, to the last hour's logs
GetPresetQueryUnchecked(queryName, params, t) ==
    [filter |-> <<"timestamp>=\"", "T", ToString(t - 60), "\"">>, pageSize |-> 20, err |-> <<>>]

\* GetPresetQuery(queryName, params...) at time t: (filter, pageSize, err); err = <<>> is nil
GetPresetQuery(queryName, params, t) ==
    IF queryName \notin PresetNames THEN
        [filter |-> <<>>, pageSize |-> 0,
         err |-> <<"preset query '">> \o queryName \o <<"' not found">>]
    ELSE LET preset == CommonPresetQueries(queryName) IN
    CASE queryName = <<"cloud_run_errors">> ->
           [filter |-> Sprintf(preset.Filter, <<FormatRFC3339(t - 1 * Hour)>>),
            pageSize |-> preset.PageSize, err |-> <<>>]
      [] queryName = <<"cloud_run_service_errors">> ->
           IF Len(params) < 1 THEN
               [filter |-> <<>>, pageSize |-> 0,
                err |-> <<"service name parameter required for cloud_run_service_errors">>]
           ELSE
               [filter |-> Sprintf(preset.Filter, <<params[1], FormatRFC3339(t - 2 * Hour)>>),
                pageSize |-> preset.PageSize, err |-> <<>>]
      [] queryName = <<"recent_logs">> ->
           [filter |-> Sprintf(preset.Filter, <<FormatRFC3339(t - 1 * Hour)>>),
            pageSize |-> preset.PageSize, err |-> <<>>]
      [] queryName = <<"high_severity">> ->
           [filter |-> Sprintf(preset.Filter, <<FormatRFC3339(t - 6 * Hour)>>),
            pageSize |-> preset.PageSize, err |-> <<>>]

\* -------------------------------------------------------------- RateLimiter
Second == 1000
backoffDuration == 1 * Second
maxRetries == 3

\* errors the remote store's iterator returns: a gRPC status code ("none" for
\* a plain error) and the text of Error()
ErrQuota == [code |-> "ResourceExhausted",
             text |-> <<"rpc error: code = ResourceExhausted desc = ", "Quota exceeded">>]
ErrRate == [code |-> "none", text |-> <<"Rate Limit">>]
ErrDenied == [code |-> "PermissionDenied",
              text |-> <<"rpc error: code = PermissionDenied desc = ", "denied">>]
RemoteErrors == {ErrQuota, ErrRate, ErrDenied}

NoErr == [code |-> "none", text |-> <<>>]

\* further errors an operation handed to ExecuteWithBackoff can return: a
\* ResourceExhausted status whose text has none of the phrases, plain errors
\* that spell a phrase in their own case, and failures of other kinds
ErrExhaustedBare == [code |-> "ResourceExhausted",
                     text |-> <<"rpc error: code = ResourceExhausted desc = ", "too many requests">>]
ErrExhaustedText == [code |-> "none", text |-> <<"upstream said: ", "Resource Exhausted">>]
ErrQuotaText == [code |-> "Unknown",
                 text |-> <<"rpc error: code = Unknown desc = ", "Quota exceeded", " for project">>]
ErrUnauthenticated == [code |-> "Unauthenticated",
                       text |-> <<"rpc error: code = Unauthenticated desc = ", "invalid credentials">>]
ErrInvalidFilter == [code |-> "InvalidArgument",
                     text |-> <<"rpc error: code = InvalidArgument desc = ", "unparseable filter">>]
ErrUnavailable == [code |-> "Unavailable",
                   text |-> <<"rpc error: code = Unavailable desc = ", "connection refused">>]
ErrDeadline == [code |-> "DeadlineExceeded",
                text |-> <<"rpc error: code = DeadlineExceeded desc = ", "context deadline exceeded">>]
OperationErrors ==
    RemoteErrors \cup {ErrExhaustedBare, ErrExhaustedText, ErrQuotaText, ErrUnauthenticated,
                       ErrInvalidFilter, ErrUnavailable, ErrDeadline}

\* fmt.Errorf(prefix + "%w", err): the text is prefixed, and status.FromError
\* still finds the wrapped status
Errorf(prefix, err) == [code |-> err.code, text |-> <<prefix>> \o err.text]

\* strings.ToLower on the tokens that occur in error texts
ToLowerToken(tok) ==
    CASE tok = "Quota exceeded" -> "quota exceeded"
      [] tok = "Rate Limit" -> "rate limit"
      [] tok = "Resource Exhausted" -> "resource exhausted"
      [] tok = "Timeout" -> "timeout"
      [] tok = "ERROR" -> "error"
      [] tok = "API" -> "api"
      [] OTHER -> tok

ToLower(s) == [i \in 1..Len(s) |-> ToLowerToken(s[i])]

\* strings.Contains(s, phrase) for a phrase that is one token
Contains(s, phrase) == \E i \in 1..Len(s) : s[i] = phrase

\* a plausible slip: every error is taken for a quota error
isQuotaExceededAlways(err) == TRUE

\* a plausible slip: no error is taken for a quota error
isQuotaExceededNever(err) == FALSE

\* RateLimiter.isQuotaExceededError
isQuotaExceededError(err) ==
    IF err.code = "ResourceExhausted" THEN TRUE
    ELSE LET errStr == ToLower(err.text) IN
         \/ Contains(errStr, "quota exceeded")
         \/ Contains(errStr, "rate limit")
         \/ Contains(errStr, "resource exhausted")

RECURSIVE Pow2(_)
\* math.Pow(2, n) for n >= 0
Pow2(n) == IF n <= 0 THEN 1 ELSE 2 * Pow2(n - 1)

\* a plausible slip: the backoff does not grow with the attempt
calculateBackoffFlat(attempt) == backoffDuration + (backoffDuration * 1) \div 10

\* a plausible slip: the jitter is left out
calculateBackoffNoJitter(attempt) == backoffDuration * Pow2(attempt)

\* RateLimiter.calculateBackoff, in milliseconds
calculateBackoff(attempt) ==
    LET backoff == backoffDuration * Pow2(attempt)
        jitter == (backoff * 1) \div 10
    IN  backoff + jitter

\* ------------------------------------------------------------ remote store
\* raw entries of the remote store
EntryA == [InsertID |-> "r1", TextPayload |-> <<"timeout">>]
EntryB == [InsertID |-> "r2", TextPayload |-> <<"ok">>]

\* what the iterator yields before iterator.Done
RemoteStreams == {<<>>, <<EntryB, EntryA, EntryA, EntryA>>}

\* SearchLogsTool.isStructuredQuery
isStructuredQuery(query) ==
    Contains(query, "service_name") \/ Contains(query, "cloud_run")

\* strings.Contains(s, sub) on token strings
ContainsSeq(s, sub) ==
    \E i \in 0..(Len(s) - Len(sub)) : SubSeq(s, i + 1, i + Len(sub)) = sub

\* SearchLogsTool.matchesQuery for entries with a text payload and no labels
matchesQuery(entry, query) ==
    IF isStructuredQuery(query) THEN TRUE
    ELSE ContainsSeq(ToLower(entry.TextPayload), ToLower(query))

\* the LogEntry built from a raw entry
ToLogEntry(entry) == [InsertID |-> entry.InsertID, TextPayload |-> entry.TextPayload]

\* whether the collection loop of tool t keeps the entry: searchLogs skips
\* the entries matchesQuery rejects, listLogEntries keeps all
Keeps(t, entry, query) == IF t = "search_logs" THEN matchesQuery(entry, query) ELSE TRUE

RECURSIVE Collect(_, _, _, _, _)
\* the collection loop of listLogEntries / searchLogs: entries are taken from
\* the iterator until pageSize have been kept or the iterator is done
Collect(stream, pageSize, kept, t, query) ==
    IF Len(kept) >= pageSize \/ Len(stream) = 0 THEN kept
    ELSE IF Keeps(t, Head(stream), query)
         THEN Collect(Tail(stream), pageSize, Append(kept, ToLogEntry(Head(stream))), t, query)
         ELSE Collect(Tail(stream), pageSize, kept, t, query)

RECURSIVE Consumed(_, _, _, _, _)
\* the entries iter.Next() hands to the collection loop before the loop ends:
\* the loop asks for the next entry only while fewer than pageSize are kept
Consumed(stream, pageSize, count, t, query) ==
    IF count >= pageSize \/ Len(stream) = 0 THEN <<>>
    ELSE <<Head(stream)>>
           \o Consumed(Tail(stream), pageSize,
                       IF Keeps(t, Head(stream), query) THEN count + 1 ELSE count, t, query)

\* ------------------------------------------------------------ FilterBuilder
\* strings.ToUpper on the tokens that occur as severities
ToUpperToken(tok) ==
    CASE tok = "warning" -> "WARNING"
      [] tok = "error" -> "ERROR"
      [] OTHER -> tok

ToUpper(s) == [i \in 1..Len(s) |-> ToUpperToken(s[i])]

\* number of characters of the tokens that occur in queries
TokenLen(tok) ==
    CASE tok = "-" -> 1
      [] tok = " " -> 1
      [] tok = "a" -> 1
      [] tok = "b" -> 1
      [] tok = "gw" -> 2
      [] tok = "my" -> 2
      [] tok = "api" -> 3
      [] tok = "API" -> 3
      [] tok = "error" -> 5
      [] tok = "ERROR" -> 5
      [] tok = "tenant" -> 6
      [] tok = "service" -> 7
      [] tok = "timeout" -> 7
      [] tok = "Timeout" -> 7
      [] tok = "checkout" -> 8
      [] tok = "timestamp" -> 9

RECURSIVE StrLen(_)
\* len(s) of a token string
StrLen(s) == IF Len(s) = 0 THEN 0 ELSE TokenLen(Head(s)) + StrLen(Tail(s))

RECURSIVE FieldsFrom(_, _, _)
\* the scan of strings.Fields: cur is the field being read, acc the fields read
FieldsFrom(s, cur, acc) ==
    LET closed == IF cur = <<>> THEN acc ELSE Append(acc, cur) IN
    IF Len(s) = 0 THEN closed
    ELSE IF Head(s) = " " THEN FieldsFrom(Tail(s), <<>>, closed)
    ELSE FieldsFrom(Tail(s), Append(cur, Head(s)), acc)

\* strings.Fields(s): the maximal runs without white space
Fields(s) == FieldsFrom(s, <<>>, <<>>)

\* the builder's state fb.filters is a sequence of clauses
AddTimeRange(filters, startTime, endTime) ==
    LET lower == IF startTime # <<>>
                 THEN Append(filters, <<"timestamp", " >= \"">> \o startTime \o <<"\"">>)
                 ELSE filters
    IN  IF endTime # <<>>
        THEN Append(lower, <<"timestamp", " <= \"">> \o endTime \o <<"\"">>)
        ELSE lower

AddSeverity(filters, severity) ==
    IF severity # <<>> THEN Append(filters, <<"severity >= ">> \o ToUpper(severity)) ELSE filters

\* the clause buildOptimizedFilter appends itself for params.Resource
AddResource(filters, resource) ==
    IF resource # <<>> THEN Append(filters, <<"resource.type=\"">> \o resource \o <<"\"">>)
    ELSE filters

AddCloudRunService(filters, serviceName) ==
    IF serviceName # <<>>
    THEN filters \o << <<"resource.type=\"cloud_run_revision\"">>,
                       <<"resource.labels.service_name=\"">> \o serviceName \o <<"\"">> >>
    ELSE filters

AddLogName(filters, logName) ==
    IF logName # <<>> THEN Append(filters, <<"logName=\"">> \o logName \o <<"\"">>) ELSE filters

AddKeywords(filters, keywords) ==
    IF keywords = <<>> THEN filters
    ELSE LET sev == IF Contains(keywords, "error") \/ Contains(keywords, "ERROR")
                    THEN Append(filters, <<"severity >= ", "ERROR">>)
                    ELSE filters
         IN  Append(sev, <<"(textPayload:\"">> \o keywords \o <<"\" OR jsonPayload.message:\"">>
                            \o keywords \o <<"\")">>)

AddDefaultTimeConstraint(filters, t) ==
    IF \E i \in 1..Len(filters) : Contains(filters[i], "timestamp") THEN filters
    ELSE Append(filters, <<"timestamp", " >= \"">> \o FormatRFC3339(t - 24 * Hour) \o <<"\"">>)

Build(filters) == Join(filters, <<" AND ">>)

\* the first field with a hyphen and more than 5 characters, or <<>>
RECURSIVE FirstServiceName(_)
FirstServiceName(parts) ==
    IF Len(parts) = 0 THEN <<>>
    ELSE IF Contains(Head(parts), "-") /\ StrLen(Head(parts)) > 5 THEN Head(parts)
    ELSE FirstServiceName(Tail(parts))

\* SearchLogsTool.parseQueryForOptimizedFilters
parseQueryForOptimizedFilters(query, filters) ==
    LET q == ToLower(query)
        svc == IF Contains(q, "casone") \/ Contains(q, "tenant") \/ Contains(q, "api")
               THEN AddCloudRunService(filters, FirstServiceName(Fields(q)))
               ELSE filters
    IN  AddKeywords(svc, q)

\* SearchLogsTool.buildOptimizedFilter at time t
buildOptimizedFilter(params, t) ==
    LET f1 == AddTimeRange(<<>>, params.StartTime, params.EndTime)
        f2 == AddSeverity(f1, params.Severity)
        f3 == AddResource(f2, params.Resource)
        f4 == AddLogName(f3, params.LogName)
        f5 == IF params.Query # <<>> THEN parseQueryForOptimizedFilters(params.Query, f4) ELSE f4
    IN  Build(AddDefaultTimeConstraint(f5, t))

\* ------------------------------------------------------------ tool Execute
NoResult == [status |-> "none", isError |-> FALSE, keys |-> {}, entries |-> <<>>,
             text |-> <<>>, err |-> NoErr]

\* a goroutine that is serving nothing and has served nothing yet
IdleInv == [pc |-> "idle", tool |-> "none", via |-> "none", args |-> EmptyMap,
            params |-> EmptyMap, key |-> <<>>, filter |-> <<>>, pageSize |-> 0,
            hit |-> FALSE, attempt |-> 0, calls |-> 0, sleeps |-> <<>>,
            lastErr |-> NoErr, result |-> NoResult, ctxDone |-> FALSE,
            consumed |-> <<>>]

\* return nil, fmt.Errorf(...): Execute hands a Go error to its caller
Raised(text) == [NoResult EXCEPT !.status = "raised", !.text = text]

\* &types.CallToolResult{..., IsError: true}
ErrorResult(text, err) ==
    [NoResult EXCEPT !.status = "error", !.isError = TRUE, !.text = text, !.err = err]

\* &types.CallToolResult{...} carrying the marshalled entries; keys are the
\* members of the JSON object (none for list_log_entries, which returns the
\* bare array)
OkResult(keys, entries) ==
    [NoResult EXCEPT !.status = "ok", !.keys = keys, !.entries = entries]

\* members of the JSON object a tool returns on a cache hit
HitKeys(t) ==
    CASE t = "list_log_entries" -> {}
      [] t = "search_logs" -> {"query", "count", "entries", "cached"}
      [] t = "preset_query" -> {"queryName", "count", "entries", "cached"}

\* members of the JSON object a tool returns after a remote call
FreshKeys(t) ==
    CASE t = "list_log_entries" -> {}
      [] t = "search_logs" -> {"query", "count", "entries"}
      [] t = "preset_query" -> {"queryName", "filter", "count", "entries"}

\* the prefix of the error text a tool reports when the remote call failed
FailurePrefix(t) ==
    CASE t = "list_log_entries" -> "Error listing log entries: "
      [] t = "search_logs" -> "Error searching logs: "
      [] t = "preset_query" -> "Error executing preset query: "

\* a plausible slip: the required argument is not checked
MissingRequiredNever(t, params) == FALSE

\* whether Execute rejects the decoded arguments before anything else
MissingRequired(t, params) ==
    CASE t = "list_log_entries" -> FALSE
      [] t = "search_logs" -> params.Query = <<>>
      [] t = "preset_query" -> params.QueryName = <<>>

RequiredText(t) ==
    IF t = "search_logs" THEN <<"Error: query parameter is required">>
    ELSE <<"Error: queryName parameter is required">>

\* a plausible slip: every entry is stored with the long TTL
TTLAlwaysLong(t, params) == 10 * Minute

\* the TTL Execute passes to cache.Set
TTLFor(t, params) ==
    IF t = "search_logs" /\ params.StartTime # <<>> THEN 10 * Minute ELSE 2 * Minute

\* the filter and page size the remote call of tool t is made with at time tn
\* (searchLogs compiles its filter inside each attempt)
RemoteQuery(t, params, tn) ==
    IF t = "preset_query"
    THEN LET q == GetPresetQuery(params.QueryName, params.Parameters, tn)
         IN  [filter |-> q.filter, pageSize |-> q.pageSize, err |-> q.err]
    ELSE IF t = "list_log_entries"
    THEN [filter |-> params.Filter, pageSize |-> params.PageSize, err |-> <<>>]
    ELSE [filter |-> <<>>, pageSize |-> params.PageSize, err |-> <<>>]

\* Execute of tool t from its entry up to the first remote call: the
\* invocation record it leaves, given the tool's cache map m at time tn
ExecuteStart(t, args, typed, via, m, tn) ==
    LET decoded == Decode(t, args)
        params == Normalize(t, decoded)
        key == GenerateKey(params)
        hit == Get(m, key, tn)
        q == RemoteQuery(t, params, tn)
        base == [IdleInv EXCEPT !.tool = t, !.via = via, !.args = args]
    IN  IF ~typed THEN
            [base EXCEPT !.result = Raised(<<"failed to unmarshal arguments: ">>)]
        ELSE IF MissingRequired(t, decoded) THEN
            [base EXCEPT !.params = decoded,
                         !.result = ErrorResult(RequiredText(t), NoErr)]
        ELSE IF hit.found THEN
            [base EXCEPT !.params = params, !.key = key, !.hit = TRUE,
                         !.result = OkResult(HitKeys(t), hit.data)]
        ELSE IF q.err # <<>> THEN
            [base EXCEPT !.params = params, !.key = key,
                         !.result = ErrorResult(<<"Error: ">> \o q.err, NoErr)]
        ELSE
            [base EXCEPT !.pc = "attempt", !.params = params, !.key = key,
                         !.filter = q.filter, !.pageSize = q.pageSize]

\* whether ExecuteStart derives a cache key for the arguments
DerivesKey(t, args, typed) == typed /\ ~MissingRequired(t, Decode(t, args))

\* ------------------------------------------------------------- requests
PageSizes == {-1, 0, 3, 21, 500}
OrderAsc == <<"timestamp", " ", "asc">>

ListReq(f, n, o) ==
    [tool |-> "list_log_entries", typed |-> TRUE,
     args |-> [filter |-> f, pageSize |-> n, orderBy |-> o]]

SearchReq(q, st, n) ==
    [tool |-> "search_logs", typed |-> TRUE,
     args |-> [query |-> q, startTime |-> st, pageSize |-> n]]

PresetReq(name, ps) ==
    [tool |-> "preset_query", typed |-> TRUE,
     args |-> [queryName |-> name, parameters |-> ps]]

\* a request one of whose arguments has a JSON type its struct field does not
\* accept (pageSize: "ten")
Untyped(r) == [r EXCEPT !.typed = FALSE]

ListRequests ==
    {ListReq(<<"f">>, n, <<>>) : n \in PageSizes}
    \cup {ListReq(<<>>, 0, OrderAsc), Untyped(ListReq(<<"f">>, 0, <<>>))}

SearchRequests ==
    {SearchReq(<<"timeout">>, <<>>, n) : n \in {0, 500}}
    \cup {SearchReq(<<"timeout">>, <<"T0">>, 3),
          SearchReq(<<>>, <<>>, 0),
          SearchReq(<<"cloud_run">>, <<>>, 21)}

PresetRequests ==
    {PresetReq(name, <<>>) : name \in PresetNames \cup {<<>>, <<"nonexistent">>}}
    \cup {PresetReq(<<"cloud_run_service_errors">>, << <<"svc-a">> >>),
          PresetReq(<<"recent_logs">>, << <<"svc-a">> >>)}

AllRequests == ListRequests \cup SearchRequests \cup PresetRequests

\* the requests followed through the server's tool handlers
HandlerRequests ==
    {ListReq(<<"f">>, 500, <<>>),
     SearchReq(<<"timeout">>, <<"T0">>, 3),
     SearchReq(<<"timeout">>, <<>>, 500),
     SearchReq(<<>>, <<>>, 0),
     PresetReq(<<"cloud_run_service_errors">>, << <<"svc-a">> >>),
     PresetReq(<<"nonexistent">>, <<>>)}

\* a request together with the way it reaches Execute
Via(r, via) == [tool |-> r.tool, typed |-> r.typed, args |-> r.args, via |-> via]

Calls == {Via(r, "direct") : r \in AllRequests} \cup {Via(r, "handler") : r \in HandlerRequests}

\* --------------------------------------------------------------- actions
\* what one invocation of the operation can meet at the remote store
Outcomes ==
    {[ok |-> TRUE, stream |-> st, err |-> NoErr] : st \in RemoteStreams}
    \cup {[ok |-> FALSE, stream |-> <<>>, err |-> e] : e \in RemoteErrors}

\* a caller invokes tool r.tool with arguments args; Execute runs up to its
\* first remote call (or to its return, when it makes none)
Begin(p, r, args, via) ==
    /\ inv[p].pc = "idle"
    /\ inv' = [inv EXCEPT ![p] = ExecuteStart(r.tool, args, r.typed, via, cache[r.tool], now)]
    /\ keyLog' = IF DerivesKey(r.tool, args, r.typed)
                 THEN keyLog \cup {[params |-> inv'[p].params, key |-> inv'[p].key]}
                 ELSE keyLog
    /\ Cardinality(keyLog') <= MaxLog
    /\ UNCHANGED <<now, horizon, cache, got, written, procs, reqs, liveSweeps, stopped, mu>>

\* tool.Execute(args) called with the caller's argument map as it is (the
\* dispatch of the JSON-RPC servers)
ExecuteDirect ==
    \E p \in procs, r \in reqs : r.via = "direct" /\ Begin(p, r, r.args, "direct")

\* the server's tool handler rebuilds the argument map, then calls Execute
ExecuteViaHandler ==
    \E p \in procs, r \in reqs :
        r.via = "handler" /\ r.typed /\ Begin(p, r, HandlerArgs(r.tool, r.args), "handler")

\* a plausible slip: a quota error is retried however often it has occurred
ExecuteWithBackoffForever(i, err) ==
    LET called == [i EXCEPT !.calls = @ + 1] IN
    IF err = NoErr THEN
        [called EXCEPT !.pc = "idle", !.result = OkResult({}, <<>>)]
    ELSE IF ~isQuotaExceededError(err) THEN
        [called EXCEPT !.pc = "idle", !.lastErr = err,
                       !.result = ErrorResult(err.text, err)]
    ELSE [called EXCEPT !.pc = "sleep", !.lastErr = err]

\* one iteration of the loop of ExecuteWithBackoff: the operation has been
\* called and returned err (NoErr is nil).  The record is left at the sleep
\* before the next attempt, or at the return of ExecuteWithBackoff with its
\* return value in result.err
ExecuteWithBackoff(i, err) ==
    LET called == [i EXCEPT !.calls = @ + 1] IN
    IF err = NoErr THEN
        [called EXCEPT !.pc = "idle", !.result = OkResult({}, <<>>)]
    ELSE IF ~isQuotaExceededError(err) THEN
        [called EXCEPT !.pc = "idle", !.lastErr = err,
                       !.result = ErrorResult(err.text, err)]
    ELSE IF i.attempt < maxRetries THEN
        [called EXCEPT !.pc = "sleep", !.lastErr = err]
    ELSE LET final == Errorf("max retries exceeded: ", err) IN
        [called EXCEPT !.pc = "idle", !.lastErr = err,
                       !.result = ErrorResult(final.text, final)]

\* the invocation record after one call of the operation inside
\* ExecuteWithBackoff met outcome out, and Execute ran on to its next wait or
\* to its return
AfterAttempt(i, out) ==
    LET err == IF out.ok THEN NoErr
               ELSE Errorf("failed to iterate log entries: ", out.err)
        r == ExecuteWithBackoff(i, err)
    IN  IF r.pc = "sleep" THEN r
        ELSE IF r.result.isError THEN
            [r EXCEPT !.result = ErrorResult(<<FailurePrefix(i.tool)>> \o r.result.err.text,
                                             r.result.err)]
        ELSE
            [r EXCEPT !.result = OkResult(FreshKeys(i.tool),
                           Collect(out.stream, i.pageSize, <<>>, i.tool, i.params.Query)),
                      !.consumed = Consumed(out.stream, i.pageSize, 0, i.tool, i.params.Query)]

\* a plausible slip: the result is stored before the error is looked at
CacheAfterUnchecked(m, key, stored, ok, t) == Set(m, key, stored.Data, stored.TTL, t)

\* the tool's cache map after ExecuteWithBackoff has returned: Execute returns
\* its error result before it reaches cache.Set
CacheAfter(m, key, stored, ok, t) ==
    IF ok THEN Set(m, key, stored.Data, stored.TTL, t) ELSE m

\* one call of the operation: the remote store answers; on success Execute
\* stores the entries and returns, on failure ExecuteWithBackoff classifies
\* the error.  executePresetQuery builds a new ListLogEntriesTools, hence a new
\* LogCache with its cleanup goroutine, for every call.  searchLogs compiles
\* its filter anew at the start of every call.
Attempt(p) ==
    /\ inv[p].pc = "attempt"
    /\ \E out \in Outcomes :
         LET i == inv[p]
             after == AfterAttempt(i, out)
             next == IF i.tool = "search_logs"
                     THEN [after EXCEPT !.filter = buildOptimizedFilter(i.params, now)]
                     ELSE after
             stored == CacheEntry(next.result.entries, now, TTLFor(i.tool, i.params))
         IN  /\ inv' = [inv EXCEPT ![p] = next]
             /\ cache' = [cache EXCEPT ![i.tool] = CacheAfter(@, i.key, stored, out.ok, now)]
             /\ written' = IF out.ok
                           THEN [written EXCEPT ![i.tool] =
                                    Put(@, i.key, [Data |-> stored.Data,
                                                   Timestamp |-> stored.Timestamp,
                                                   TTL |-> stored.TTL,
                                                   Filter |-> next.filter])]
                           ELSE written
    /\ liveSweeps' = IF inv[p].tool = "preset_query" /\ liveSweeps < MaxSweeps
                     THEN liveSweeps + 1 ELSE liveSweeps
    /\ UNCHANGED <<now, horizon, got, procs, reqs, keyLog, stopped, mu>>

\* time.Sleep(backoffTime) returns; the loop goes to its next attempt
Wake(p) ==
    /\ inv[p].pc = "sleep"
    /\ inv' = [inv EXCEPT ![p] = [@ EXCEPT !.pc = "attempt",
                                           !.sleeps = Append(@, calculateBackoff(inv[p].attempt)),
                                           !.attempt = @ + 1]]
    /\ UNCHANGED <<now, horizon, cache, got, written, procs, reqs, liveSweeps, keyLog, stopped, mu>>

Call == \E p \in procs : Attempt(p)
Backoff == \E p \in procs : Wake(p)
SweepPass == \E t \in Tools : Sweep(t)

\* the clock is followed past the longest TTL only for requests that can get it
HorizonFor(r) ==
    IF r.via = "direct" /\ "startTime" \in DOMAIN r.args /\ r.args.startTime # <<>>
    THEN MaxTime ELSE CacheHorizon

\* the server after registerTools, serving one request shape, one invocation
\* at a time
Init ==
    /\ now = 0
    /\ InitCaches
    /\ got = NoGet
    /\ procs = {1}
    /\ inv = [p \in procs |-> IdleInv]
    /\ keyLog = {}
    /\ \E r \in Calls : reqs = {r} /\ horizon = HorizonFor(r)

Next == Tick \/ ExecuteDirect \/ ExecuteViaHandler \/ Call \/ Backoff \/ SweepPass

Spec == Init /\ [][Next]_vars

\* pairs of requests to one tool that differ in some field
RequestPairs ==
    {{PresetReq(<<"cloud_run_service_errors">>, << <<"a", " ", "b">> >>),
      PresetReq(<<"cloud_run_service_errors">>, << <<"a">>, <<"b">> >>)},
     {SearchReq(<<"x", " ", "StartTime:", "y">>, <<>>, 0),
      SearchReq(<<"x">>, <<"y", " ", "StartTime:">>, 0)},
     {ListReq(<<"f">>, 3, <<>>), ListReq(<<"g">>, 3, <<>>)}}

\* the server after registerTools, serving two request shapes of one tool
InitPair ==
    /\ now = 0
    /\ horizon = PairHorizon
    /\ InitCaches
    /\ got = NoGet
    /\ procs = {1}
    /\ inv = [p \in procs |-> IdleInv]
    /\ keyLog = {}
    /\ \E pair \in RequestPairs : reqs = {Via(r, "direct") : r \in pair}

NextPair == Tick \/ ExecuteDirect \/ Call \/ Backoff \/ SweepPass

SpecPair == InitPair /\ [][NextPair]_vars

\* the requests two callers issue at the same time
ConcurrentRequests ==
    {SearchReq(<<"timeout">>, <<>>, 0), ListReq(<<"f">>, 3, <<>>),
     PresetReq(<<"recent_logs">>, <<>>)}

\* the server after registerTools, serving two invocations of one request
\* shape at a time, each on its own goroutine
InitConc ==
    /\ now = 0
    /\ horizon = ConcHorizon
    /\ InitCaches
    /\ got = NoGet
    /\ procs = {1, 2}
    /\ inv = [p \in procs |-> IdleInv]
    /\ keyLog = {}
    /\ \E r \in ConcurrentRequests : reqs = {Via(r, "direct")}

\* no ticker fires within the horizon followed here
NextConc == Tick \/ ExecuteDirect \/ Call \/ Backoff

SpecConc == InitConc /\ [][NextConc]_vars

\* pairs of requests to one tool that differ as supplied and are equal once
\* the defaults are applied
EqualDefaultsPairs ==
    {{ListReq(<<"f">>, 0, <<>>), ListReq(<<"f">>, 10, <<>>)},
     {ListReq(<<"f">>, 3, <<>>), ListReq(<<"f">>, 3, DefaultOrderBy)},
     {SearchReq(<<"timeout">>, <<>>, 500), SearchReq(<<"timeout">>, <<>>, 20)}}

\* tool.Execute(args) called by a caller that waits for every answer before
\* it issues the next request
ExecuteInTurn ==
    \E p \in procs, r \in reqs :
        /\ \A q \in procs : inv[q].pc = "idle"
        /\ Begin(p, r, r.args, "direct")

\* the server after registerTools, serving two request shapes with equal
\* defaults on two goroutines, one invocation at a time
InitNorm ==
    /\ now = 0
    /\ horizon = NormHorizon
    /\ InitCaches
    /\ got = NoGet
    /\ procs = {1, 2}
    /\ inv = [p \in procs |-> IdleInv]
    /\ keyLog = {}
    /\ \E pair \in EqualDefaultsPairs : reqs = {Via(r, "direct") : r \in pair}

\* no ticker fires within the horizon followed here
NextNorm == Tick \/ ExecuteInTurn \/ Call \/ Backoff

SpecNorm == InitNorm /\ [][NextNorm]_vars

\* --------------------------------------------- filters compiled directly
UserStart == <<"2024-01-01T00:00:00Z">>
UserEnd == <<"2024-01-02T00:00:00Z">>

FilterQueries ==
    {<<>>, <<"timeout">>, <<"Timeout">>, <<"error">>, <<"timestamp">>,
     <<"checkout", "-", "service", " ", "timeout">>,
     <<"api", " ", "my", "-", "service">>,
     <<"API", "-", "gw", " ", "ERROR">>,
     <<"api", " ", "a", "-", "b">>,
     <<"tenant", " ", "a", "-", "b", " ", "my", "-", "service", " ", "api", "-", "gw">>}

\* the SearchLogsArgs handed to buildOptimizedFilter
FilterRequests ==
    [Query : FilterQueries, StartTime : {<<>>, UserStart}, EndTime : {<<>>, UserEnd},
     Severity : {<<>>, <<"warning">>}, Resource : {<<>>, <<"gce_instance">>},
     LogName : {<<>>, <<"syslog">>}, PageSize : {DefaultPageSize}, OrderBy : {DefaultOrderBy}]

\* t.buildOptimizedFilter(params) called directly
Compile(p, params) ==
    /\ inv' = [inv EXCEPT ![p] = [IdleInv EXCEPT !.tool = "search_logs", !.via = "filter",
                                                 !.params = params,
                                                 !.filter = buildOptimizedFilter(params, now)]]
    /\ UNCHANGED <<now, horizon, cache, got, written, procs, reqs, liveSweeps, keyLog, stopped, mu>>

CompileFilter == \E p \in procs, params \in FilterRequests : Compile(p, params)

InitFilter ==
    /\ now = 0
    /\ horizon = FilterHorizon
    /\ InitCaches
    /\ got = NoGet
    /\ procs = {1}
    /\ reqs = {}
    /\ inv = [p \in procs |-> IdleInv]
    /\ keyLog = {}

NextFilter == Tick \/ CompileFilter

SpecFilter == InitFilter /\ [][NextFilter]_vars

\* the server serving one invocation at a time, where every remote attempt
\* returns or is cut off by its 30-second timeout and every sleep ends
InitLive ==
    /\ now = 0
    /\ horizon = LiveHorizon
    /\ InitCaches
    /\ got = NoGet
    /\ procs = {1}
    /\ inv = [p \in procs |-> IdleInv]
    /\ keyLog = {}
    /\ \E r \in ConcurrentRequests : reqs = {Via(r, "direct")}

NextLive == Tick \/ ExecuteDirect \/ Call \/ Backoff

SpecLive == InitLive /\ [][NextLive]_vars /\ WF_vars(Call) /\ WF_vars(Backoff)

\* ------------------------------------------- the retry loop driven directly
\* r.ExecuteWithBackoff(ctx, operation) called with a cancellable context
RetryStart(p) ==
    /\ inv[p].pc = "idle"
    /\ inv' = [inv EXCEPT ![p] = [IdleInv EXCEPT !.pc = "attempt", !.via = "limiter"]]
    /\ UNCHANGED <<now, horizon, cache, got, written, procs, reqs, liveSweeps, keyLog, stopped, mu>>

\* operation() is called and returns nil or one of the errors
Operation(p) ==
    /\ inv[p].pc = "attempt"
    /\ \E err \in {NoErr} \cup OperationErrors :
          inv' = [inv EXCEPT ![p] = ExecuteWithBackoff(inv[p], err)]
    /\ UNCHANGED <<now, horizon, cache, got, written, procs, reqs, liveSweeps, keyLog, stopped, mu>>

\* the caller cancels ctx, or its deadline fires, while the call is running
Cancel(p) ==
    /\ inv[p].pc # "idle"
    /\ ~inv[p].ctxDone
    /\ inv' = [inv EXCEPT ![p] = [@ EXCEPT !.ctxDone = TRUE]]
    /\ UNCHANGED <<now, horizon, cache, got, written, procs, reqs, liveSweeps, keyLog, stopped, mu>>

LimiterCall == \E p \in procs : RetryStart(p)
LimiterOperation == \E p \in procs : Operation(p)
LimiterCancel == \E p \in procs : Cancel(p)

InitRetry ==
    /\ now = 0
    /\ horizon = 0
    /\ InitCaches
    /\ got = NoGet
    /\ procs = {1}
    /\ reqs = {}
    /\ inv = [p \in procs |-> IdleInv]
    /\ keyLog = {}

NextRetry == LimiterCall \/ LimiterOperation \/ Backoff \/ LimiterCancel

SpecRetry == InitRetry /\ [][NextRetry]_vars

\* ---------------------------------------------- LogCache, lock by lock
\* the cleanup goroutine of the cache, as a holder of c.mu
Cleaner == 0

\* sync.RWMutex: RLock returns once no goroutine holds the write lock
CanRLock(m) == m.writers = {}

\* a plausible slip: the write lock is granted while readers are inside
CanLockDespiteReaders(m) == m.writers = {}

\* sync.RWMutex: Lock returns once no goroutine holds the lock in either mode
CanLock(m) == m.readers = {} /\ m.writers = {}

\* Get: c.mu.RLock() returns
GetRLock(p, key) ==
    /\ inv[p].pc = "idle"
    /\ CanRLock(mu[UnitCache])
    /\ mu' = [mu EXCEPT ![UnitCache].readers = @ \cup {p}]
    /\ inv' = [inv EXCEPT ![p] = [IdleInv EXCEPT !.pc = "rlocked", !.tool = UnitCache,
                                                 !.via = "cache", !.key = key]]
    /\ UNCHANGED <<now, horizon, cache, got, written, procs, reqs, liveSweeps, keyLog, stopped>>

\* Get: the map is read and the age compared
GetRead(p) ==
    /\ inv[p].pc = "rlocked"
    /\ LET r == Get(cache[UnitCache], inv[p].key, now) IN
       inv' = [inv EXCEPT ![p] = [@ EXCEPT !.pc = "read", !.hit = r.found,
                                          !.result = OkResult({}, r.data)]]
    /\ UNCHANGED <<now, horizon, cache, got, written, procs, reqs, liveSweeps, keyLog, stopped, mu>>

\* Get: the deferred c.mu.RUnlock() runs
GetRUnlock(p) ==
    /\ inv[p].pc = "read"
    /\ mu' = [mu EXCEPT ![UnitCache].readers = @ \ {p}]
    /\ inv' = [inv EXCEPT ![p] = [@ EXCEPT !.pc = "idle"]]
    /\ UNCHANGED <<now, horizon, cache, got, written, procs, reqs, liveSweeps, keyLog, stopped>>

\* Set: c.mu.Lock() returns
SetLock(p, key, data, ttl) ==
    /\ inv[p].pc = "idle"
    /\ CanLock(mu[UnitCache])
    /\ mu' = [mu EXCEPT ![UnitCache].writers = @ \cup {p}]
    /\ inv' = [inv EXCEPT ![p] = [IdleInv EXCEPT !.pc = "locked", !.tool = UnitCache,
                                                 !.via = "cache", !.key = key,
                                                 !.params = [data |-> data, ttl |-> ttl]]]
    /\ UNCHANGED <<now, horizon, cache, got, written, procs, reqs, liveSweeps, keyLog, stopped>>

\* Set: the entry is put into the map
SetWrite(p) ==
    /\ inv[p].pc = "locked"
    /\ cache' = [cache EXCEPT ![UnitCache] =
                    Set(@, inv[p].key, inv[p].params.data, inv[p].params.ttl, now)]
    /\ written' = [written EXCEPT ![UnitCache] =
                      Put(@, inv[p].key, CacheEntry(inv[p].params.data, now, inv[p].params.ttl))]
    /\ inv' = [inv EXCEPT ![p] = [@ EXCEPT !.pc = "wrote"]]
    /\ UNCHANGED <<now, horizon, got, procs, reqs, liveSweeps, keyLog, stopped, mu>>

\* Set: the deferred c.mu.Unlock() runs
SetUnlock(p) ==
    /\ inv[p].pc = "wrote"
    /\ mu' = [mu EXCEPT ![UnitCache].writers = @ \ {p}]
    /\ inv' = [inv EXCEPT ![p] = [@ EXCEPT !.pc = "idle"]]
    /\ UNCHANGED <<now, horizon, cache, got, written, procs, reqs, liveSweeps, keyLog, stopped>>

\* cleanup: the ticker has fired and c.mu.Lock() returns
SweepLock ==
    /\ now >= SweepInterval
    /\ Cleaner \notin mu[UnitCache].writers
    /\ CanLock(mu[UnitCache])
    /\ mu' = [mu EXCEPT ![UnitCache].writers = @ \cup {Cleaner}]
    /\ UNCHANGED <<now, horizon, cache, got, written, procs, reqs, inv, liveSweeps, keyLog, stopped>>

\* cleanup: the expired entries are deleted, then c.mu.Unlock() runs
SweepUnlock ==
    /\ Cleaner \in mu[UnitCache].writers
    /\ cache' = [cache EXCEPT ![UnitCache] = Cleanup(@, now)]
    /\ mu' = [mu EXCEPT ![UnitCache].writers = @ \ {Cleaner}]
    /\ UNCHANGED <<now, horizon, got, written, procs, reqs, inv, liveSweeps, keyLog, stopped>>

LockKey == <<"k1">>

Reader == \E p \in procs : GetRLock(p, LockKey) \/ GetRead(p) \/ GetRUnlock(p)
Writer == \E p \in procs : (\E d \in RecSeqs : SetLock(p, LockKey, d, Minute))
                               \/ SetWrite(p) \/ SetUnlock(p)
Sweeper == SweepLock \/ SweepUnlock

\* one LogCache used by two goroutines and its cleanup goroutine
InitLock ==
    /\ now = 0
    /\ horizon = LockHorizon
    /\ InitCaches
    /\ got = NoGet
    /\ procs = {1, 2}
    /\ reqs = {}
    /\ inv = [p \in procs |-> IdleInv]
    /\ keyLog = {}

NextLock == Tick \/ Reader \/ Writer \/ Sweeper

SpecLock == InitLock /\ [][NextLock]_vars

\* ======================================================================
\* Properties
\* ======================================================================

\* the entry the latest Set left under key k of the directly driven cache
LastSet(k) == written[UnitCache][k]
WasSet(k) == k \in DOMAIN written[UnitCache]

\* C1: Get(key) returns (stored records, true) exactly when an entry for key
\* exists and now - entry.Timestamp < entry.TTL, and (nil, false) otherwise;
\* in particular Get is a miss at age = ttl.
C1_GetValidOnHalfOpenInterval ==
    [][\A k \in DirectKeys :
         CacheGet(UnitCache, k) =>
           LET m == cache[UnitCache] IN
           IF k \in DOMAIN m /\ now - m[k].Timestamp < m[k].TTL
           THEN got'.found /\ got'.data = m[k].Data
           ELSE ~got'.found /\ got'.data = <<>>]_vars

\* C2: after Set(k, recs, ttl) with ttl > 0 and no later Set on k, a Get(k)
\* strictly before ttl has elapsed returns (recs, true), the records in the
\* order given; a Get(k) after ttl has passed returns (_, false).  Sweep
\* passes may fall anywhere in between.
C2_CacheRoundTrip ==
    [][\A k \in DirectKeys :
         (CacheGet(UnitCache, k) /\ WasSet(k)) =>
           LET age == now - LastSet(k).Timestamp IN
           /\ (LastSet(k).TTL > 0 /\ age < LastSet(k).TTL)
                 => (got'.found /\ got'.data = LastSet(k).Data)
           /\ (age > LastSet(k).TTL) => ~got'.found]_vars

\* C2 witness: a Get one minute after Set(k, <<r2, r1>>, 2 minutes) has
\* returned those records in that order
C2_Witness ==
    /\ got.tool = UnitCache
    /\ got.found
    /\ got.data = <<"r2", "r1">>
    /\ WasSet(got.key)
    /\ LastSet(got.key).Data = <<"r2", "r1">>
    /\ LastSet(got.key).TTL = 2 * Minute
    /\ now - LastSet(got.key).Timestamp = Minute

\* C3: Get leaves the cache unchanged (entries, data, timestamps, TTLs), and
\* an entry stored at time t is a miss from t + ttl on, however often it was
\* read in between.
C3_GetIsReadOnlyAndExpiryFixed ==
    [][\A k \in DirectKeys :
         CacheGet(UnitCache, k) =>
           /\ cache' = cache
           /\ (WasSet(k) /\ now >= LastSet(k).Timestamp + LastSet(k).TTL)
                 => ~got'.found]_vars

\* the invocation of goroutine p ended in a cache hit
IsHit(p) == inv[p].pc = "idle" /\ inv[p].hit

\* the invocation of goroutine p ended after a successful remote call
IsFresh(p) == inv[p].pc = "idle" /\ inv[p].result.status = "ok" /\ ~inv[p].hit

C5_DifferentRequestsDifferentKeys ==
    \A e1, e2 \in keyLog : e1.params # e2.params => e1.key # e2.key

\* C6: a request with pageSize 0 is executed with page size 10, one with
\* pageSize above 20 with exactly 20, and no tool queries the remote store
\* with a result cap above 20.
C6_PageSizePolicy ==
    \A p \in procs :
        LET i == inv[p]
            asked == Field(i.args, "pageSize", 0)
        IN  (i.pc # "idle" \/ i.calls > 0) =>
              /\ i.pageSize <= 20
              /\ (i.tool # "preset_query" /\ asked = 0) => i.pageSize = 10
              /\ (i.tool # "preset_query" /\ asked > 20) => i.pageSize = 20

\* C6 witness: a request for 500 entries went to the remote store with cap 20
C6_Witness ==
    \E p \in procs :
        /\ IsFresh(p)
        /\ inv[p].calls > 0
        /\ Field(inv[p].args, "pageSize", 0) = 500
        /\ inv[p].pageSize = 20

\* C7: on a cache hit each tool returns the cached records without a remote
\* call or a retry, and the result carries the cached marker.
C7_HitReturnsCachedAndMarked ==
    \A p \in procs :
        IsHit(p) =>
          /\ inv[p].calls = 0
          /\ inv[p].sleeps = <<>>
          /\ inv[p].result.status = "ok"
          /\ "cached" \in inv[p].result.keys

\* the entry the latest successful call stored under the key of p's invocation
Stored(p) == written[inv[p].tool][inv[p].key]
HasStored(p) == inv[p].key \in DOMAIN written[inv[p].tool]

C9_TTLPolicy ==
    \A p \in procs :
        LET i == inv[p] IN
        (i.key # <<>> /\ i.key \in DOMAIN cache[i.tool]) =>
            cache[i.tool][i.key].TTL =
                IF i.tool = "search_logs" /\ i.params.StartTime # <<>>
                THEN 10 * Minute ELSE 2 * Minute

\* C9 witness: a search with a start time is still served from the cache more
\* than 2 minutes after it was stored with a TTL of 10 minutes
C9_Witness ==
    \E p \in procs :
        /\ IsHit(p)
        /\ inv[p].tool = "search_logs"
        /\ inv[p].params.StartTime = <<"T0">>
        /\ cache[inv[p].tool][inv[p].key].TTL = 10 * Minute
        /\ now - cache[inv[p].tool][inv[p].key].Timestamp > 2 * Minute

\* the first call of the operation failed with the store's PermissionDenied
FirstCallDenied(p) ==
    /\ inv[p].attempt = 0
    /\ inv[p].lastErr = Errorf("failed to iterate log entries: ", ErrDenied)

\* C10: when the operation's first invocation fails with a non-quota error,
\* ExecuteWithBackoff has invoked it exactly once, slept never, and returns
\* that same error, not wrapped as retry exhaustion.
C10_NonRetryablePropagates ==
    \A p \in procs :
        FirstCallDenied(p) =>
          /\ inv[p].pc = "idle"
          /\ inv[p].calls = 1
          /\ inv[p].sleeps = <<>>
          /\ inv[p].result.isError
          /\ inv[p].result.err = inv[p].lastErr

\* C10 witness: an invocation ended on the store's PermissionDenied
C10_Witness ==
    \E p \in procs : FirstCallDenied(p) /\ inv[p].pc = "idle" /\ inv[p].calls = 1

\* ExecuteWithBackoff, called directly by goroutine p, has returned nil
LimiterOk(p) == inv[p].via = "limiter" /\ inv[p].pc = "idle" /\ inv[p].result.status = "ok"

\* ExecuteWithBackoff, called directly by goroutine p, has returned an error
LimiterFailed(p) == inv[p].via = "limiter" /\ inv[p].pc = "idle" /\ inv[p].result.isError

\* C11: when the operation fails k times (0 <= k <= 3) with a retryable error
\* and then succeeds, ExecuteWithBackoff returns nil after exactly k + 1
\* invocations and exactly k sleeps, one between each two consecutive
\* invocations, each sleep strictly longer than the one before.
C11_RetriesThenSuccess ==
    \A p \in procs :
        LET i == inv[p] IN
        /\ i.pc = "attempt" => Len(i.sleeps) = i.calls
        /\ i.pc = "sleep" => Len(i.sleeps) = i.calls - 1
        /\ LimiterOk(p) =>
              /\ i.calls \in 1..4
              /\ Len(i.sleeps) = i.calls - 1
              /\ \A j \in 1..(Len(i.sleeps) - 1) : i.sleeps[j] < i.sleeps[j + 1]

\* C11 witness: two quota failures, then success: three invocations and two
\* sleeps, the second longer than the first
C11_Witness ==
    \E p \in procs :
        /\ LimiterOk(p)
        /\ inv[p].calls = 3
        /\ Len(inv[p].sleeps) = 2
        /\ inv[p].sleeps[1] < inv[p].sleeps[2]
        /\ inv[p].lastErr = ErrQuota

\* the errors of OperationErrors that signal quota or rate limiting
QuotaErrors == {ErrQuota, ErrRate, ErrExhaustedBare, ErrExhaustedText, ErrQuotaText}

\* C12: ExecuteWithBackoff never invokes the operation more than 4 times; when
\* every attempt failed with a retryable error it has invoked it exactly 4
\* times, slept exactly 3 times (not after the last attempt), and returns the
\* last attempt's error wrapped as "max retries exceeded".
C12_RetryBoundAndExhaustion ==
    \A p \in procs :
        LET i == inv[p] IN
        /\ i.calls <= 4
        /\ (LimiterFailed(p) /\ i.lastErr \in QuotaErrors) =>
              /\ i.calls = 4
              /\ Len(i.sleeps) = 3
              /\ i.result.err = [code |-> i.lastErr.code,
                                 text |-> <<"max retries exceeded: ">> \o i.lastErr.text]

\* C12 witness: four failed attempts end in the wrapped rate-limit error
C12_Witness ==
    \E p \in procs :
        /\ LimiterFailed(p)
        /\ inv[p].calls = 4
        /\ Len(inv[p].sleeps) = 3
        /\ inv[p].lastErr = ErrRate
        /\ inv[p].result.err.text = <<"max retries exceeded: ", "Rate Limit">>

\* the error text has one of the three phrases, in whatever case
SaysQuotaPhrase(e) ==
    \E j \in 1..Len(e.text) :
        e.text[j] \in {"Quota exceeded", "quota exceeded", "Rate Limit", "rate limit",
                       "Resource Exhausted", "resource exhausted"}

\* the loop treated the error the operation just returned as retryable
Retried(i) ==
    \/ i.pc = "sleep"
    \/ (i.pc = "idle" /\ i.result.isError /\ Head(i.result.err.text) = "max retries exceeded: ")

\* C13: an error is retried if and only if it carries the status code
\* ResourceExhausted or its text contains, case-insensitively, "quota
\* exceeded", "rate limit" or "resource exhausted"; every other error (auth,
\* malformed filter, network, deadline exceeded) is not retried.
C13_ErrorClassification ==
    [][\A p \in procs : \A e \in OperationErrors :
         (inv[p].pc = "attempt" /\ inv'[p] = ExecuteWithBackoff(inv[p], e)) =>
            (Retried(inv'[p]) <=> (e.code = "ResourceExhausted" \/ SaysQuotaPhrase(e)))]_vars

\* C13 witness: the loop sleeps before a retry after a plain error that
\* spells "Resource Exhausted" and carries no status code
C13_Witness ==
    \E p \in procs :
        /\ inv[p].via = "limiter"
        /\ inv[p].pc = "sleep"
        /\ inv[p].calls = 1
        /\ inv[p].lastErr = ErrExhaustedText

C15_BackoffCancellable ==
    [][\A p \in procs :
         (inv[p].pc = "sleep" /\ inv[p].ctxDone) =>
            (inv'[p].sleeps = inv[p].sleeps /\ inv'[p].pc # "attempt")]_vars

\* C16: the periodic sweep started by NewLogCache can be stopped: once
\* shutdown is requested, every cleanup goroutine eventually terminates, and
\* no sweep pass runs after that.
C16_SweepStopsAfterShutdown == stopped ~> (liveSweeps = 0)

\* C17: a sweep pass removes every entry whose TTL has elapsed at the time of
\* the pass and leaves every other entry (key, data, timestamp, TTL) as it
\* was.
C17_SweepRemovesExactlyExpired ==
    [][DirectSweep =>
         \A k \in DOMAIN cache[UnitCache] :
             LET e == cache[UnitCache][k] IN
             IF now - e.Timestamp >= e.TTL
             THEN k \notin DOMAIN cache'[UnitCache]
             ELSE k \in DOMAIN cache'[UnitCache] /\ cache'[UnitCache][k] = e]_vars

\* goroutine p is between RLock and RUnlock of Get
InGet(p) == inv[p].via = "cache" /\ inv[p].pc \in {"rlocked", "read"}

\* goroutine p is between Lock and Unlock of Set
InSet(p) == inv[p].via = "cache" /\ inv[p].pc \in {"locked", "wrote"}

\* C18: under any interleaving of concurrent Get, Set and sweep, no writer
\* (Set or a sweep pass) is inside its critical section while a reader or
\* another writer is inside theirs; several Gets may be inside together; and
\* the entry map is only read or written by a goroutine holding the lock.
C18_LockDiscipline ==
    /\ [](/\ Cardinality({p \in procs : InSet(p)}
                          \cup (mu[UnitCache].writers \cap {Cleaner})) <= 1
          /\ ((\E p \in procs : InSet(p)) \/ Cleaner \in mu[UnitCache].writers)
                 => ~(\E q \in procs : InGet(q))
          /\ \A p \in procs : (InGet(p) => p \in mu[UnitCache].readers)
          /\ \A p \in procs : (InSet(p) => p \in mu[UnitCache].writers))
    /\ [][(cache' # cache => mu[UnitCache].writers # {})
          /\ (\A p \in procs : GetRead(p) => p \in mu[UnitCache].readers)]_vars

\* C18 witness: two Gets are inside their critical sections at once, over an
\* entry a Set has written
C18_Witness ==
    /\ InGet(1) /\ InGet(2)
    /\ mu[UnitCache].readers = {1, 2}
    /\ LockKey \in DOMAIN cache[UnitCache]

\* C19: there is no single-flight: two concurrent invocations of one tool
\* with one cache key, no live entry being there, can both miss and both make
\* the remote call; each stores its result, the later Set replacing the
\* earlier, and the cache ends with one entry for the key.
C19_NoSingleFlight ==
    /\ [](\A p \in procs : inv[p].pc = "attempt" => ENABLED Attempt(p))
    /\ [][\A p \in procs :
            (Attempt(p) /\ inv'[p].result.status = "ok") =>
               LET i == inv'[p] IN
               cache'[i.tool] =
                   Put(cache[i.tool], i.key,
                       CacheEntry(i.result.entries, now, TTLFor(i.tool, i.params)))]_vars

\* C19 witness: within one minute both invocations missed, both called the
\* remote store once and got different answers; the cache holds one entry
\* for their key, the answer stored last
C19_Witness ==
    /\ now = 0
    /\ IsFresh(1) /\ IsFresh(2)
    /\ inv[1].tool = inv[2].tool /\ inv[1].key = inv[2].key
    /\ inv[1].calls = 1 /\ inv[2].calls = 1
    /\ inv[1].result.entries # inv[2].result.entries
    /\ DOMAIN cache[inv[1].tool] = {inv[1].key}
    /\ cache[inv[1].tool][inv[1].key].Data = inv[2].result.entries

\* the invocation was made with an empty query (search_logs) or an empty
\* queryName (preset_query)
EmptyRequired(i) ==
    \/ i.tool = "search_logs" /\ Field(i.args, "query", <<>>) = <<>>
    \/ i.tool = "preset_query" /\ Field(i.args, "queryName", <<>>) = <<>>

\* C20: search_logs with an empty query and preset_query with an empty
\* queryName return an error-flagged result at once: no cache key is derived,
\* the cache is neither read nor written, and no remote call, sleep or retry
\* happens for the request.
C20_ValidationErrorsImmediate ==
    /\ [](\A p \in procs :
            EmptyRequired(inv[p]) =>
              /\ inv[p].pc = "idle"
              /\ inv[p].result.status = "error"
              /\ inv[p].result.isError
              /\ inv[p].key = <<>>
              /\ ~inv[p].hit
              /\ inv[p].calls = 0
              /\ inv[p].sleeps = <<>>)
    /\ [][\A p \in procs :
            EmptyRequired(inv'[p]) =>
               (cache' = cache /\ written' = written /\ keyLog' = keyLog)]_vars

\* C20 witness: a search with an empty query was answered with the error
\* result, without a call
C20_Witness ==
    \E p \in procs :
        /\ inv[p].tool = "search_logs"
        /\ EmptyRequired(inv[p])
        /\ inv[p].result.isError
        /\ inv[p].result.text = <<"Error: query parameter is required">>
        /\ inv[p].calls = 0

\* the preset_query invocation names no catalog preset
UnknownPreset(i) ==
    /\ i.tool = "preset_query"
    /\ i.params # EmptyMap
    /\ i.params.QueryName # <<>>
    /\ i.params.QueryName \notin PresetNames

\* the preset_query invocation asks for cloud_run_service_errors without a
\* service name
MissingServiceName(i) ==
    /\ i.tool = "preset_query"
    /\ i.params # EmptyMap
    /\ i.params.QueryName = <<"cloud_run_service_errors">>
    /\ i.params.Parameters = <<>>

Lookback(name) ==
    CASE name = <<"cloud_run_errors">> -> 60
      [] name = <<"cloud_run_service_errors">> -> 120
      [] name = <<"recent_logs">> -> 60
      [] name = <<"high_severity">> -> 360

\* the filter the catalog promises for a preset resolved at time t
ResolvedFilter(name, ps, t) ==
    LET since == <<"T", ToString(t - Lookback(name)), "\"">> IN
    CASE name = <<"cloud_run_errors">> ->
           <<"resource.type=\"cloud_run_revision\" AND severity>=ERROR AND timestamp>=\"">> \o since
      [] name = <<"cloud_run_service_errors">> ->
           <<"resource.type=\"cloud_run_revision\" AND resource.labels.service_name=\"">>
             \o ps[1] \o <<"\" AND severity>=ERROR AND timestamp>=\"">> \o since
      [] name = <<"recent_logs">> -> <<"timestamp>=\"">> \o since
      [] name = <<"high_severity">> -> <<"severity>=ERROR AND timestamp>=\"">> \o since

ResolvedPageSize(name) ==
    CASE name = <<"cloud_run_errors">> -> 10
      [] name = <<"cloud_run_service_errors">> -> 15
      [] name = <<"recent_logs">> -> 20
      [] name = <<"high_severity">> -> 10

\* C22: for each catalog preset GetPresetQuery returns the preset's template
\* with the start time set to now minus the preset's lookback (1 h, 2 h, 1 h,
\* 6 h), the first parameter substituted as the service name for
\* cloud_run_service_errors, and the preset's page size (10, 15, 20, 10).
C22_PresetResolution ==
    [][\A p \in procs :
         LET i == inv'[p] IN
         (inv[p].pc = "idle" /\ i.pc = "attempt" /\ i.tool = "preset_query") =>
            /\ i.filter = ResolvedFilter(i.params.QueryName, i.params.Parameters, now)
            /\ i.pageSize = ResolvedPageSize(i.params.QueryName)]_vars

\* C22 witness: cloud_run_service_errors for svc-a resolved to a filter with
\* resource.labels.service_name="svc-a" and page size 15
C22_Witness ==
    \E p \in procs :
        /\ inv[p].tool = "preset_query"
        /\ inv[p].pc = "attempt"
        /\ inv[p].pageSize = 15
        /\ ContainsSeq(inv[p].filter,
              <<"resource.type=\"cloud_run_revision\" AND resource.labels.service_name=\"",
                "svc-a", "\" AND severity>=ERROR AND timestamp>=\"">>)

\* buildOptimizedFilter was called directly by goroutine p
Compiled(p) == inv[p].via = "filter"

\* the default clause for a filter compiled at time t
DefaultClause(t) == <<"timestamp", " >= \"", "T", ToString(t - 1440), "\"">>

\* number of timestamp lower-bound clauses in the filter f
LowerBounds(f) ==
    Cardinality({j \in 1..(Len(f) - 1) : f[j] = "timestamp" /\ f[j + 1] = " >= \""})

\* C23: a request with neither startTime nor endTime, whatever its other
\* fields, compiles to a filter with the clause timestamp >= compile time
\* minus 24 hours; a request with a startTime compiles to a filter whose only
\* timestamp lower bound is the caller's.
C23_DefaultTimeConstraint ==
    \A p \in procs :
        LET i == inv[p] IN
        Compiled(p) =>
          /\ (i.params.StartTime = <<>> /\ i.params.EndTime = <<>>) =>
                \E t \in 0..now : ContainsSeq(i.filter, DefaultClause(t))
          /\ i.params.StartTime # <<>> =>
                /\ LowerBounds(i.filter) = 1
                /\ ContainsSeq(i.filter,
                      <<"timestamp", " >= \"">> \o i.params.StartTime \o <<"\"">>)

\* position of the first token tok in f, or 0
Pos(f, tok) ==
    IF \E j \in 1..Len(f) : f[j] = tok
    THEN CHOOSE j \in 1..Len(f) : f[j] = tok /\ \A k \in 1..(j - 1) : f[k] # tok
    ELSE 0

\* the opening tokens of the clauses in the order the filter is to have them:
\* caller's lower bound, upper bound, severity floor, resource type, service
\* name, log name, text match
ClauseOrder(params) ==
    (IF params.StartTime # <<>> THEN <<" >= \"">> ELSE <<>>)
    \o <<" <= \"">>
    \o (IF params.Severity # <<>> THEN <<"severity >= ">> ELSE <<>>)
    \o <<"resource.type=\"", "resource.labels.service_name=\"", "logName=\"", "(textPayload:\"">>

\* C24: the clauses of the compiled filter, joined by " AND ", come in the
\* order time lower bound, time upper bound, severity floor, resource type,
\* service name, log name, keyword clause, each only if its source is there;
\* so the service-name clause always precedes the log-name clause.
C24_ClauseOrder ==
    \A p \in procs :
        Compiled(p) =>
          LET f == inv[p].filter
              order == ClauseOrder(inv[p].params)
          IN  \A a, b \in 1..Len(order) :
                (a < b /\ Pos(f, order[a]) > 0 /\ Pos(f, order[b]) > 0)
                   => Pos(f, order[a]) < Pos(f, order[b])

\* Execute, called for goroutine p, has returned
Returned(p) ==
    inv[p].via \in {"direct", "handler"} /\ inv[p].pc = "idle" /\ inv[p].tool # "none"

\* C25: no error escapes Execute: for every input and every failure
\* (validation, unknown preset, retry exhaustion, non-retryable remote error,
\* arguments that cannot be decoded) Execute returns a result object, with the
\* error flag and a message on failure, never a raw error value.
C25_NoErrorEscapes ==
    \A p \in procs :
        Returned(p) =>
          /\ inv[p].result.status \in {"ok", "error"}
          /\ inv[p].result.status = "error" =>
                (inv[p].result.isError /\ inv[p].result.text # <<>>)

\* C26: every tool invocation terminates: when each remote attempt returns
\* or is cut off by its timeout, Execute returns after at most 4 attempts and
\* at most 3 sleeps, each of bounded length.
C26_InvocationTerminates ==
    /\ [](/\ inv[1].calls <= 4
          /\ Len(inv[1].sleeps) <= 3
          /\ \A j \in 1..Len(inv[1].sleeps) : inv[1].sleeps[j] <= 4400)
    /\ ((inv[1].pc # "idle") ~> (inv[1].pc = "idle"))

\* C26 witness: an invocation returned after 4 attempts and 3 sleeps
C26_Witness ==
    /\ Returned(1)
    /\ inv[1].calls = 4
    /\ Len(inv[1].sleeps) = 3
    /\ inv[1].result.isError

\* C27: compiling an empty request (no query, no structured field) yields
\* the empty filter string.
C27_EmptyRequestEmptyFilter ==
    \A p \in procs :
        LET i == inv[p] IN
        (/\ Compiled(p)
         /\ i.params.Query = <<>> /\ i.params.StartTime = <<>> /\ i.params.EndTime = <<>>
         /\ i.params.Severity = <<>> /\ i.params.Resource = <<>> /\ i.params.LogName = <<>>)
           => i.filter = <<>>

\* the white-space delimited tokens of the query that have a hyphen and more
\* than 5 characters
ServiceTokens(query) ==
    LET parts == Fields(query) IN
    {j \in 1..Len(parts) : Contains(parts[j], "-") /\ StrLen(parts[j]) > 5}

\* the clause resource.labels.service_name="name"
ServiceClause(name) == <<"resource.labels.service_name=\"">> \o name \o <<"\"">>

\* C28: when the query has a white-space delimited token with a hyphen and
\* more than 5 characters, the compiled filter has a service-name clause for
\* the first such token (in the caller's spelling or in lower case); when it
\* has none, the filter has no service-name clause.
C28_ServiceNameHeuristic ==
    \A p \in procs :
        Compiled(p) =>
          LET q == inv[p].params.Query
              f == inv[p].filter
              idx == ServiceTokens(q)
          IN  IF idx # {}
              THEN LET first == Fields(q)[CHOOSE j \in idx : \A k \in idx : j <= k] IN
                   ContainsSeq(f, ServiceClause(first)) \/ ContainsSeq(f, ServiceClause(ToLower(first)))
              ELSE Pos(f, "resource.labels.service_name=\"") = 0

\* the text-match clause on the keyword string kw
TextMatch(kw) ==
    <<"(textPayload:\"">> \o kw \o <<"\" OR jsonPayload.message:\"">> \o kw \o <<"\")">>

\* the query has the word error, in whatever case
ErrorIndicating(query) == Contains(ToLower(query), "error")

\* C29: for every non-empty query the keyword part of the compiled filter
\* ends with a text-match clause (textPayload or jsonPayload.message) on the
\* query exactly as the caller wrote it, and a severity >= ERROR clause stands
\* immediately before it if and only if the query has an error-indicating
\* substring.
C29_KeywordClause ==
    \A p \in procs :
        (Compiled(p) /\ inv[p].params.Query # <<>>) =>
          LET q == inv[p].params.Query
              f == inv[p].filter
          IN  /\ ContainsSeq(f, TextMatch(q))
              /\ ErrorIndicating(q) <=>
                    ContainsSeq(f, <<"severity >= ", "ERROR", " AND ">> \o TextMatch(q))

\* C30: preset results are cached under the resolved filter: a cached result
\* is only returned for a request whose resolved filter equals the filter
\* that produced it.
C30_PresetCacheKeyedOnFilter ==
    [][\A p \in procs :
         ((ExecuteDirect \/ ExecuteViaHandler)
            /\ inv'[p].tool = "preset_query" /\ inv'[p].hit) =>
            LET i == inv'[p] IN
            GetPresetQuery(i.params.QueryName, i.params.Parameters, now).filter
                = written[i.tool][i.key].Filter]_vars

\* the page size the invocation runs with: the normalized pageSize of the
\* request, or the page size of the preset
EffectivePageSize(i) ==
    IF i.tool = "preset_query"
    THEN GetPresetQuery(i.params.QueryName, i.params.Parameters, now).pageSize
    ELSE i.params.PageSize

\* number of the entries in the sequence es that the loop of invocation i keeps
KeptOf(i, es) ==
    Cardinality({j \in 1..Len(es) : Keeps(i.tool, es[j], i.params.Query)})

\* C31: for every tool and every remote response, the records returned to the
\* caller and stored in the cache number at most the effective page size
\* (hence at most 20), and the remote iterator is not advanced again once that
\* many records have been collected.
C31_ResultCap ==
    \A p \in procs :
        LET i == inv[p] IN
        (Returned(p) /\ i.result.status = "ok") =>
          /\ Len(i.result.entries) <= EffectivePageSize(i)
          /\ Len(i.result.entries) <= 20
          /\ \A k \in DOMAIN cache[i.tool] : Len(cache[i.tool][k].Data) <= 20
          /\ i.key \in DOMAIN cache[i.tool]
                => Len(cache[i.tool][i.key].Data) <= EffectivePageSize(i)
          /\ \A j \in 1..Len(i.consumed) :
                KeptOf(i, SubSeq(i.consumed, 1, j - 1)) < EffectivePageSize(i)

\* C32: for every integer pageSize a caller supplies to list_log_entries or
\* search_logs, negative values included, the effective page size after
\* normalization lies between 1 and 20.
C32_PageSizeFloor ==
    \A p \in procs :
        LET i == inv[p] IN
        (i.tool \in {"list_log_entries", "search_logs"} /\ i.key # <<>>) =>
           (i.params.PageSize >= 1 /\ i.params.PageSize <= 20)

\* C33: Set(k, recs, ttl) replaces the entry for k wholesale: afterwards the
\* entry holds recs, the time of the Set as creation time and the given ttl,
\* whatever was stored before; no entry under another key changes; the cache
\* holds one entry per key.
C33_SetReplacesWholesale ==
    [][\A k \in DirectKeys, d \in RecSeqs, ttl \in DirectTTLs :
         CacheSet(UnitCache, k, d, ttl) =>
            LET old == cache[UnitCache]
                new == cache'[UnitCache]
            IN  /\ DOMAIN new = DOMAIN old \cup {k}
                /\ new[k] = [Data |-> d, Timestamp |-> now, TTL |-> ttl]
                /\ \A o \in DOMAIN old : o # k => new[o] = old[o]]_vars

\* C33 witness: k1 was read, then set again with other records at a later
\* time, while the entry under k2, stored earlier, is still there
C33_Witness ==
    LET m == cache[UnitCache] IN
    /\ got.tool = UnitCache /\ got.found /\ got.key = <<"k1">>
    /\ DOMAIN m = DirectKeys
    /\ m[<<"k1">>].Data # got.data
    /\ m[<<"k1">>].Timestamp = now
    /\ m[<<"k2">>].Timestamp < now

\* C34: failures are never cached: when a tool invocation ends in an error
\* result (validation error, unknown preset, non-retryable remote error or
\* retry exhaustion), no step of it has changed the tool's cache, and the next
\* identical request is not served from the cache: it goes to the remote
\* store again if the failed one did.
C34_FailuresNotCached ==
    [][\A p \in procs :
         /\ (inv'[p] # inv[p] /\ inv'[p].result.status # "ok") => cache' = cache
         /\ ((ExecuteDirect \/ ExecuteViaHandler) /\ inv[p].result.isError) =>
               /\ ~inv'[p].hit
               /\ inv[p].calls > 0 => inv'[p].pc = "attempt"]_vars

\* C34 witness: an invocation that found its entry expired ended in the
\* store's PermissionDenied; the expired entry is in the cache as it was
C34_Witness ==
    \E p \in procs :
        /\ Returned(p)
        /\ inv[p].result.isError
        /\ inv[p].calls = 1
        /\ inv[p].lastErr = Errorf("failed to iterate log entries: ", ErrDenied)
        /\ inv[p].key \in DOMAIN cache[inv[p].tool]
        /\ cache[inv[p].tool][inv[p].key] = CacheEntry(Stored(p).Data, Stored(p).Timestamp, Stored(p).TTL)
        /\ now - Stored(p).Timestamp > Stored(p).TTL

\* C35: the sweep is invisible to callers: whatever Sets and Gets are made and
\* wherever sweep passes fall among them, each Get returns what it returns in
\* the run without any sweep pass (where the map holds the latest Set of
\* every key); a pass only deletes entries that every later Get reports as a
\* miss anyway.
C35_SweepInvisible ==
    [][/\ \A k \in DirectKeys :
            CacheGet(UnitCache, k) =>
               /\ got'.found = Get(written[UnitCache], k, now).found
               /\ got'.data = Get(written[UnitCache], k, now).data
       /\ DirectSweep =>
            \A k \in DOMAIN cache[UnitCache] \ DOMAIN cache'[UnitCache] :
               \A t \in now..horizon : ~Get(cache[UnitCache], k, t).found]_vars

\* C35 witness: a Get missed on a key that was set and whose entry a sweep
\* pass has deleted
C35_Witness ==
    /\ got.tool = UnitCache
    /\ ~got.found
    /\ WasSet(got.key)
    /\ got.key \notin DOMAIN cache[UnitCache]
    /\ now >= SweepInterval

\* goroutine p enters Execute in this step
Enters(p) ==
    \E r \in reqs :
        \/ r.via = "direct" /\ Begin(p, r, r.args, "direct")
        \/ r.via = "handler" /\ r.typed /\ Begin(p, r, HandlerArgs(r.tool, r.args), "handler")

\* the longest a tool's answer may have been in the cache, in minutes
MaxStaleness(i) ==
    IF i.tool = "search_logs" /\ i.params.StartTime # <<>> THEN 10 ELSE 2

\* C36: whenever a tool answers from the cache, the records it returns were
\* stored by a successful remote call of the same tool for the same key no
\* longer ago than the entry's TTL: at most 2 minutes for list, preset and
\* search without startTime, at most 10 minutes for search with startTime,
\* wherever sweep passes fall.
C36_BoundedStaleness ==
    [][\A p \in procs :
         (Enters(p) /\ inv'[p].hit) =>
            LET i == inv'[p] IN
            /\ i.key \in DOMAIN written[i.tool]
            /\ i.result.entries = written[i.tool][i.key].Data
            /\ now - written[i.tool][i.key].Timestamp <= written[i.tool][i.key].TTL
            /\ now - written[i.tool][i.key].Timestamp <= MaxStaleness(i)]_vars

\* C37: the caches and sweep tasks are fixed after startup: once the three
\* tools are registered, no tool invocation (hit, miss, retry, failure)
\* creates another LogCache or starts another sweep task, so the live sweep
\* tasks never outnumber the registered tools.
C37_SweepTasksFixed == liveSweeps <= Cardinality(Tools)

\* C38: in list_log_entries and search_logs the cache key is derived from the
\* request after the page-size and sort-order defaults are applied: requests
\* that are equal once the defaults are applied (pageSize 0 and 10, pageSize
\* 500 and 20, orderBy empty and "timestamp desc") get the same key, and the
\* second one issued within the TTL is served from the cache.
C38_NormalizeBeforeKey ==
    /\ [](\A e1, e2 \in keyLog : e1.key = e2.key)
    /\ [][\A p \in procs :
            Enters(p) =>
               \A k \in DOMAIN written[inv'[p].tool] :
                  LET e == written[inv'[p].tool][k] IN
                  now - e.Timestamp < e.TTL =>
                     (inv'[p].hit /\ inv'[p].calls = 0 /\ inv'[p].result.entries = e.Data)]_vars

\* C38 witness: a request with pageSize 0 was served from the cache the entry
\* of which a request with pageSize 10 had stored after its remote call
C38_Witness ==
    \E p, q \in procs :
        /\ IsFresh(p) /\ inv[p].calls = 1 /\ Field(inv[p].args, "pageSize", 0) = 10
        /\ IsHit(q) /\ Field(inv[q].args, "pageSize", 0) = 0
        /\ inv[p].tool = inv[q].tool
        /\ inv[p].key = inv[q].key
        /\ inv[q].result.entries = inv[p].result.entries
        /\ inv[q].result.entries # <<>>

\* C39: for a search_logs invocation delivered through the server's tool
\* handler, every request field the caller supplied (startTime, endTime,
\* resource, logName, orderBy, query, severity, pageSize) reaches Execute
\* with the supplied value; so a request with an explicit startTime is
\* compiled with that start time and cached with the 10-minute TTL.
C39_SearchArgumentDelivery ==
    \A p \in procs : \A r \in reqs :
        LET i == inv[p]
            supplied == Decode("search_logs", r.args)
        IN  (i.via = "handler" /\ i.tool = "search_logs" /\ r.tool = "search_logs"
             /\ i.key # <<>>) =>
               /\ i.params = Normalize("search_logs", supplied)
               /\ (supplied.StartTime # <<>> /\ IsFresh(p)) =>
                     /\ ContainsSeq(i.filter,
                           <<"timestamp", " >= \"">> \o supplied.StartTime \o <<"\"">>)
                     /\ cache[i.tool][i.key].TTL = 10 * Minute

\* C40: every filter search_logs sends to the remote store has a lower bound
\* on the entry timestamp, the caller's startTime or the injected now - 24 h
\* default; also for requests that give only an endTime and for requests
\* whose query or logName text contains the word "timestamp".
C40_QuotaGuardrail ==
    \A p \in procs :
        (Compiled(p) /\ inv[p].params.Query # <<>>) =>
          LET f == inv[p].filter
              st == inv[p].params.StartTime
          IN  /\ LowerBounds(f) >= 1
              /\ IF st # <<>>
                 THEN ContainsSeq(f, <<"timestamp", " >= \"">> \o st \o <<"\"">>)
                 ELSE \E t \in 0..now : ContainsSeq(f, DefaultClause(t))

====
